---------------------------- MODULE Spec2Model ----------------------------
(***************************************************************************)
(* Pump controller firmware (PumpController.ino, listed in src/README.md   *)
(* lines 240-472) as a state machine: the serial line assembler, the       *)
(* command handlers, channel activation/deactivation and the pulse         *)
(* scheduler, driven by the Arduino main loop                              *)
(*     for (;;) { loop(); serialEventRun(); }                              *)
(*                                                                         *)
(* A String is a sequence of one-character strings.  An unsigned long      *)
(* clock reading is an integer; the model's clock stays far below 2^31.    *)
(***************************************************************************)
EXTENDS Integers, Sequences, FiniteSets, TLC

(***************************************************************************)
(* Bounds of the exploration.                                              *)
(***************************************************************************)
MaxLines == 3          \* lines the host writes in one behaviour
MaxTicks == 2          \* clock advances of TickMillis in one behaviour
TickMillis == 500      \* milliseconds the clock advances between two passes
SlowTickMillis == 17000 \* the same, for the host of the long run

(***************************************************************************)
(* Program constants.                                                      *)
(***************************************************************************)
X_STEP_PIN == 2
X_DIR_PIN == 5
X_ENABLE_PIN == 8
Y_STEP_PIN == 3
Y_DIR_PIN == 6
Y_ENABLE_PIN == 8
Z_STEP_PIN == 4
Z_DIR_PIN == 7
Z_ENABLE_PIN == 8
A_STEP_PIN == 12
A_DIR_PIN == 13
A_ENABLE_PIN == 8
STEPS_PER_REV == 200
MICROSTEPPING == 16
EFFECTIVE_STEPS_PER_REV == STEPS_PER_REV * MICROSTEPPING
NumPumps == 4
MaxRpm == 3000
MillisPerSecond == 1000
IntBits == 16          \* width of int on the Arduino Uno (AVR)

PumpIdx == 0 .. (NumPumps - 1)

stepPin(i) == <<X_STEP_PIN, Y_STEP_PIN, Z_STEP_PIN, A_STEP_PIN>>[i + 1]
dirPin(i) == <<X_DIR_PIN, Y_DIR_PIN, Z_DIR_PIN, A_DIR_PIN>>[i + 1]
enablePin(i) == <<X_ENABLE_PIN, Y_ENABLE_PIN, Z_ENABLE_PIN, A_ENABLE_PIN>>[i + 1]
name(i) == <<"X", "Y", "Z", "A">>[i + 1]

Pins == UNION {{stepPin(i), dirPin(i), enablePin(i)} : i \in PumpIdx}

(***************************************************************************)
(* Arduino String operations, on sequences of characters.                  *)
(***************************************************************************)
NUL == "NUL"           \* the char 0 that charAt returns past the end

isSpace(c) == c \in {" ", "\t", "\n", "\r"}

isDigit(c) == c \in {"0", "1", "2", "3", "4", "5", "6", "7", "8", "9"}

digitVal(c) ==
  CASE c = "0" -> 0 [] c = "1" -> 1 [] c = "2" -> 2 [] c = "3" -> 3
    [] c = "4" -> 4 [] c = "5" -> 5 [] c = "6" -> 6 [] c = "7" -> 7
    [] c = "8" -> 8 [] c = "9" -> 9

RECURSIVE trimLeft(_)
trimLeft(s) ==
  IF s # <<>> /\ isSpace(Head(s)) THEN trimLeft(Tail(s)) ELSE s

RECURSIVE trimRight(_)
trimRight(s) ==
  IF s # <<>> /\ isSpace(s[Len(s)])
  THEN trimRight(SubSeq(s, 1, Len(s) - 1))
  ELSE s

\* String::trim()
trim(s) == trimRight(trimLeft(s))

\* String::startsWith(prefix)
startsWith(s, p) == Len(s) >= Len(p) /\ SubSeq(s, 1, Len(p)) = p

\* String::charAt(i), i counted from 0
charAt(s, i) == IF i >= 0 /\ i < Len(s) THEN s[i + 1] ELSE NUL

\* String::substring(left, right), both counted from 0, right exclusive
substring(s, left, right) ==
  LET l == IF left > right THEN right ELSE left
      r == IF left > right THEN left ELSE right
      e == IF r > Len(s) THEN Len(s) ELSE r
  IN  IF l >= Len(s) THEN <<>> ELSE SubSeq(s, l + 1, e)

\* String::indexOf(ch): the first position of ch counted from 0, or -1
indexOf(s, ch) ==
  IF \E k \in 1 .. Len(s) : s[k] = ch
  THEN (CHOOSE k \in 1 .. Len(s) : s[k] = ch /\ \A j \in 1 .. (k - 1) : s[j] # ch) - 1
  ELSE -1

RECURSIVE digitsValue(_, _)
\* the value of the leading run of digits of s, continuing from acc
digitsValue(s, acc) ==
  IF s # <<>> /\ isDigit(Head(s))
  THEN digitsValue(Tail(s), acc * 10 + digitVal(Head(s)))
  ELSE acc

\* atol(): leading white space, an optional sign, then digits; 0 when there
\* are none.
atol(s) ==
  LET t == trimLeft(s)
  IN  IF t # <<>> /\ Head(t) = "-" THEN 0 - digitsValue(Tail(t), 0)
      ELSE IF t # <<>> /\ Head(t) = "+" THEN digitsValue(Tail(t), 0)
      ELSE digitsValue(t, 0)

\* conversion of a long to the 16-bit int of the target (modulo 2^16)
toInt16(v) ==
  LET half == 2 ^ (IntBits - 1)
  IN  ((v + half) % (2 * half)) - half

\* String::toInt() stored in an int variable
toInt(s) == toInt16(atol(s))

(***************************************************************************)
(* A float is a whole number or NaN.  Every comparison with NaN is false.  *)
(***************************************************************************)
F(v) == [nan |-> FALSE, val |-> v]
NaN == [nan |-> TRUE, val |-> 0]

fEquals(x, n) == ~x.nan /\ x.val = n
fGreater(x, n) == ~x.nan /\ x.val > n
fNegate(x) == IF x.nan THEN x ELSE F(0 - x.val)

\* #define abs(x) ((x)>0?(x):-(x))
abs(x) == IF fGreater(x, 0) THEN x ELSE fNegate(x)

isNanText(t) ==
  /\ Len(t) >= 3
  /\ t[1] \in {"n", "N"} /\ t[2] \in {"a", "A"} /\ t[3] \in {"n", "N"}

\* String::toFloat(), that is atof(): leading white space, an optional
\* sign, then "nan" in any case or a numeral.  Of the numerals, those
\* without fraction or exponent are modelled (the host below writes no
\* others).
toFloat(s) ==
  LET t == trimLeft(s)
      u == IF t # <<>> /\ Head(t) \in {"-", "+"} THEN Tail(t) ELSE t
  IN  IF isNanText(u) THEN NaN ELSE F(atol(s))


(***************************************************************************)
(* Formatting of what the firmware prints.  A printed line is the sequence *)
(* of the pieces printed up to println; a number is printed digit by       *)
(* digit.                                                                  *)
(***************************************************************************)
digitChar(d) == <<"0", "1", "2", "3", "4", "5", "6", "7", "8", "9">>[d + 1]

RECURSIVE printNat(_)
printNat(n) ==
  IF n < 10 THEN <<digitChar(n)>> ELSE Append(printNat(n \div 10), digitChar(n % 10))

\* Serial.print(long)
printInt(n) == IF n < 0 THEN <<"-">> \o printNat(0 - n) ELSE printNat(n)

\* Serial.print(float, 2)
printFloat2(x) ==
  IF x.nan THEN <<"n", "a", "n">> ELSE printInt(x.val) \o <<".", "0", "0">>

OK == <<"OK">>
ERR_UNKNOWN == <<"ERROR: Unknown command">>
ERR_START_FORMAT == <<"ERROR: Invalid START command format">>
ERR_PUMP_ID == <<"ERROR: Invalid pump identifier">>
ERR_RPM == <<"ERROR: RPM must be between -3000 and 3000">>
ERR_DURATION == <<"ERROR: Duration must be positive">>
ERR_STOP == <<"ERROR: Invalid STOP command">>
ERR_PUMP == <<"ERROR: Invalid pump">>

(***************************************************************************)
(* The machine state the handlers work on:                                 *)
(*   pumps  : pumps[4], the mutable fields of each struct Pump             *)
(*   pin    : the level of every output pin                                *)
(*   out    : the lines printed by the running step, in order              *)
(*   writes : the digitalWrite calls of the running step, in order         *)
(* intervalMicros is kept as the exact quotient num/den in microseconds,    *)
(* or NaN.                                                                 *)
(***************************************************************************)
InitPump ==
  [isRunning |-> FALSE, rpm |-> F(0), duration |-> 0, continuous |-> FALSE,
   startTime |-> 0, intervalMicros |-> [nan |-> FALSE, num |-> 0, den |-> 1],
   lastStepTime |-> 0]

\* (1.0 / ((rpm / 60.0) * EFFECTIVE_STEPS_PER_REV)) * 1e6
stepInterval(r) ==
  IF r.nan THEN [nan |-> TRUE, num |-> 0, den |-> 1]
  ELSE [nan |-> FALSE, num |-> 60 * 1000000, den |-> r.val * EFFECTIVE_STEPS_PER_REV]

(***************************************************************************)
(* The same computation in the arithmetic of the board.  On the Arduino    *)
(* Uno a float and a double are both the IEEE 754 single format, so every  *)
(* operation of startPump's two lines rounds its result to 24 significant *)
(* bits, to the nearest with ties to even.  A single is                    *)
(*   [neg, m, e] : the value m * 2^e, negated if neg, with                 *)
(*                 2^23 <= m < 2^24                                        *)
(* (the values met here are neither zero, subnormal, infinite nor NaN).    *)
(* stepInterval above is the quotient these roundings approximate.         *)
(***************************************************************************)
FloatMantissaBits == 24

single(neg, m, e) == [neg |-> neg, m |-> m, e |-> e]

RECURSIVE normalize(_, _, _)
\* the single equal to m * 2^e, for 0 < m < 2^24
normalize(neg, m, e) ==
  IF m >= 2 ^ (FloatMantissaBits - 1) THEN single(neg, m, e)
  ELSE normalize(neg, 2 * m, e - 1)

\* the single of a whole number other than zero
singleOf(n) == IF n < 0 THEN normalize(TRUE, 0 - n, 0) ELSE normalize(FALSE, n, 0)

RECURSIVE excessBits(_)
\* how many low bits n has beyond 24
excessBits(n) == IF n < 2 ^ FloatMantissaBits THEN 0 ELSE 1 + excessBits(n \div 2)

\* n * 2^e (plus a fraction of 2^e that is not zero, if sticky) rounded to
\* a single, to the nearest with ties to even; n >= 2^23
roundSingle(neg, n, e, sticky) ==
  LET k == excessBits(n)
      q == n \div (2 ^ k)
      rem == n % (2 ^ k)
      half == IF k = 0 THEN 0 ELSE 2 ^ (k - 1)
      up == IF k = 0 THEN FALSE
            ELSE \/ rem > half
                 \/ rem = half /\ (sticky \/ q % 2 = 1)
      r == IF up THEN q + 1 ELSE q
  IN  IF r = 2 ^ FloatMantissaBits
      THEN single(neg, 2 ^ (FloatMantissaBits - 1), e + k + 1)
      ELSE single(neg, r, e + k)

\* x / 60.0, where 60 = 15 * 2^2
divideBy60(x) ==
  LET n == x.m * 64
  IN  roundSingle(x.neg, n \div 15, x.e - 8, n % 15 # 0)

\* x * EFFECTIVE_STEPS_PER_REV, where 3200 = 25 * 2^7
timesStepsPerRev(x) ==
  roundSingle(x.neg, x.m * (EFFECTIVE_STEPS_PER_REV \div 128), x.e + 7, FALSE)

RECURSIVE longDivision(_, _, _, _)
\* n more quotient bits of rem / m by long division: the quotient and
\* whether a remainder is left
longDivision(rem, m, quot, n) ==
  IF n = 0 THEN [quot |-> quot, inexact |-> rem # 0]
  ELSE IF 2 * rem >= m THEN longDivision(2 * rem - m, m, 2 * quot + 1, n - 1)
  ELSE longDivision(2 * rem, m, 2 * quot, n - 1)

\* 1.0 / x: 2^49 / x.m, by long division from 2^24 / x.m = 1 rem 2^24 - x.m
reciprocal(x) ==
  LET d == longDivision(2 ^ FloatMantissaBits - x.m, x.m, 1, 25)
  IN  roundSingle(x.neg, d.quot, 0 - x.e - 49, d.inexact)

\* x * 1e6, where 1e6 = 15625 * 2^6; the product is formed from the two
\* 12-bit halves of x.m
timesMillion(x) ==
  LET hi == x.m \div 4096
      lo == (x.m % 4096) * 15625
  IN  roundSingle(x.neg, hi * 15625 + lo \div 4096, x.e + 18, lo % 4096 # 0)

\* #define abs(x) ((x)>0?(x):-(x)), on a single
absSingle(x) == [x EXCEPT !.neg = FALSE]

\* startPump without rpm = abs(rpm)
stepIntervalSingleSigned(rpm) ==
  timesMillion(reciprocal(timesStepsPerRev(divideBy60(rpm))))

\* rpm = abs(rpm);
\* float stepsPerSec = (rpm / 60.0) * EFFECTIVE_STEPS_PER_REV;
\* pump->intervalMicros = (1.0 / stepsPerSec) * 1e6;
stepIntervalSingle(rpm) ==
  timesMillion(reciprocal(timesStepsPerRev(divideBy60(absSingle(rpm)))))

\* magnitudes: x < y, x <= y for two singles that are not negative
lessSingle(x, y) == x.e < y.e \/ (x.e = y.e /\ x.m < y.m)
lessEqSingle(x, y) == x = y \/ lessSingle(x, y)

\* if (rpm == 0 || abs(rpm) > 3000), for a single (which is not zero)
rpmOutOfRangeSingle(rpm) == lessSingle(singleOf(MaxRpm), absSingle(rpm))

\* the RPM values tried: some whole RPMs and the singles next above them,
\* in both directions of rotation
MaxUlps == 2
WholeRpms == {1, 50, 2000, 2999, MaxRpm}
SingleRpms ==
  UNION {{single(neg, singleOf(n).m + k, singleOf(n).e) : neg \in BOOLEAN}
           : n \in WholeRpms, k \in 0 .. MaxUlps}

digitalWrite(m, p, level) ==
  [m EXCEPT !.pin[p] = level, !.writes = Append(@, <<p, level>>)]

println(m, line) == [m EXCEPT !.out = Append(@, line)]

\* stopPump without its test of isRunning
stopPumpUnguarded(m, i) ==
  println(digitalWrite([m EXCEPT !.pumps[i].isRunning = FALSE],
                       enablePin(i), "HIGH"),
          <<"Stopped pump ", name(i)>>)

\* void stopPump(int pumpIndex)
stopPump(m, i) ==
  IF m.pumps[i].isRunning
  THEN println(digitalWrite([m EXCEPT !.pumps[i].isRunning = FALSE],
                            enablePin(i), "HIGH"),
               <<"Stopped pump ", name(i)>>)
  ELSE m

\* startPump without its stopPump(pumpIndex): the new run is configured
\* over the old one while the driver stays enabled
startPumpNoStop(m, i, rpm, duration, continuous, nowMillis, nowMicros) ==
  LET m2 == digitalWrite(m, dirPin(i), IF fGreater(rpm, 0) THEN "HIGH" ELSE "LOW")
      r  == abs(rpm)
      m3 == [m2 EXCEPT
               !.pumps[i].intervalMicros = stepInterval(r),
               !.pumps[i].rpm = r,
               !.pumps[i].duration = duration,
               !.pumps[i].continuous = continuous,
               !.pumps[i].isRunning = TRUE,
               !.pumps[i].startTime = nowMillis,
               !.pumps[i].lastStepTime = nowMicros]
      m4 == digitalWrite(m3, enablePin(i), "LOW")
  IN  println(m4, <<"Started pump ", name(i), " @ ">> \o printFloat2(r)
                  \o <<" RPM ", IF m4.pin[dirPin(i)] = "HIGH"
                                THEN "(Forward)" ELSE "(Reverse)">>)

\* void startPump(int pumpIndex, float rpm, int duration, bool continuous)
startPump(m, i, rpm, duration, continuous, nowMillis, nowMicros) ==
  LET m1 == stopPump(m, i)
      m2 == digitalWrite(m1, dirPin(i), IF fGreater(rpm, 0) THEN "HIGH" ELSE "LOW")
      r  == abs(rpm)
      m3 == [m2 EXCEPT
               !.pumps[i].intervalMicros = stepInterval(r),
               !.pumps[i].rpm = r,
               !.pumps[i].duration = duration,
               !.pumps[i].continuous = continuous,
               !.pumps[i].isRunning = TRUE,
               !.pumps[i].startTime = nowMillis,
               !.pumps[i].lastStepTime = nowMicros]
      m4 == digitalWrite(m3, enablePin(i), "LOW")
  IN  println(m4, <<"Started pump ", name(i), " @ ">> \o printFloat2(r)
                  \o <<" RPM ", IF m4.pin[dirPin(i)] = "HIGH"
                                THEN "(Forward)" ELSE "(Reverse)">>)

\* int findPumpIndex(char pumpChar)
findPumpIndex(pumpChar) ==
  IF \E i \in PumpIdx : name(i) = pumpChar
  THEN CHOOSE i \in PumpIdx : name(i) = pumpChar
  ELSE -1

RECURSIVE splitLoop(_, _, _, _, _)
\* the for loop of handleStartCommand from index i on
splitLoop(command, i, parts, partIndex, startIndex) ==
  IF i > Len(command) THEN [parts |-> parts, partIndex |-> partIndex]
  ELSE IF i = Len(command) \/ charAt(command, i) = ","
  THEN IF partIndex < 5
       THEN splitLoop(command, i + 1,
                      [parts EXCEPT ![partIndex + 1] = substring(command, startIndex, i)],
                      partIndex + 1, i + 1)
       ELSE splitLoop(command, i + 1, parts, partIndex, i + 1)
  ELSE splitLoop(command, i + 1, parts, partIndex, startIndex)

\* if (partIndex != 5)
badFieldCount(partIndex) == partIndex # 5

\* if (rpm == 0 || abs(rpm) > 3000)
rpmOutOfRange(rpm) == fEquals(rpm, 0) \/ fGreater(abs(rpm), MaxRpm)

\* if (continuous == 0 && duration <= 0)
durationMissing(continuous, duration) == continuous = 0 /\ duration <= 0

\* handleStartCommand with the safety stop done as soon as the pump is
\* known, before the RPM and duration checks
handleStartCommandStopsFirst(m, command, nowMillis, nowMicros) ==
  LET sp == splitLoop(command, 0, [k \in 1 .. 5 |-> <<>>], 0, 0)
      parts == sp.parts
      pumpChar == charAt(parts[2], 0)
      rpm == toFloat(parts[3])
      duration == toInt(parts[4])
      continuous == toInt(parts[5])
      pumpIndex == findPumpIndex(pumpChar)
  IN  IF badFieldCount(sp.partIndex) THEN println(m, ERR_START_FORMAT)
      ELSE IF pumpIndex = -1 THEN println(m, ERR_PUMP_ID)
      ELSE IF rpmOutOfRange(rpm) THEN println(stopPump(m, pumpIndex), ERR_RPM)
      ELSE IF durationMissing(continuous, duration)
        THEN println(stopPump(m, pumpIndex), ERR_DURATION)
      ELSE println(startPump(m, pumpIndex, rpm, duration, continuous = 1,
                             nowMillis, nowMicros), OK)

\* void handleStartCommand(String command)
handleStartCommand(m, command, nowMillis, nowMicros) ==
  LET sp == splitLoop(command, 0, [k \in 1 .. 5 |-> <<>>], 0, 0)
      parts == sp.parts
      pumpChar == charAt(parts[2], 0)
      rpm == toFloat(parts[3])
      duration == toInt(parts[4])
      continuous == toInt(parts[5])
      pumpIndex == findPumpIndex(pumpChar)
  IN  IF badFieldCount(sp.partIndex) THEN println(m, ERR_START_FORMAT)
      ELSE IF pumpIndex = -1 THEN println(m, ERR_PUMP_ID)
      ELSE IF rpmOutOfRange(rpm) THEN println(m, ERR_RPM)
      ELSE IF durationMissing(continuous, duration) THEN println(m, ERR_DURATION)
      ELSE println(startPump(m, pumpIndex, rpm, duration, continuous = 1,
                             nowMillis, nowMicros), OK)

\* handleStopCommand without the return after "ERROR: Invalid pump"
handleStopCommandNoReturn(m, command) ==
  LET commaIndex == indexOf(command, ",")
      pumpChar == charAt(command, commaIndex + 1)
      pumpIndex == findPumpIndex(pumpChar)
  IN  IF commaIndex = -1 \/ commaIndex = Len(command) - 1 THEN println(m, ERR_STOP)
      ELSE IF pumpIndex = -1 THEN println(println(m, ERR_PUMP), OK)
      ELSE println(stopPump(m, pumpIndex), OK)

\* void handleStopCommand(String command)
handleStopCommand(m, command) ==
  LET commaIndex == indexOf(command, ",")
      pumpChar == charAt(command, commaIndex + 1)
      pumpIndex == findPumpIndex(pumpChar)
  IN  IF commaIndex = -1 \/ commaIndex = Len(command) - 1 THEN println(m, ERR_STOP)
      ELSE IF pumpIndex = -1 THEN println(m, ERR_PUMP)
      ELSE println(stopPump(m, pumpIndex), OK)

RECURSIVE stopFromSkipsLast(_, _)
\* the loop of handleEmergencyStop with i < 3: the last channel is skipped
stopFromSkipsLast(m, i) ==
  IF i >= NumPumps - 1 THEN m ELSE stopFromSkipsLast(stopPump(m, i), i + 1)

RECURSIVE stopFrom(_, _)
\* for (int i = 0; i < 4; i++) stopPump(i);  from index i on
stopFrom(m, i) == IF i >= NumPumps THEN m ELSE stopFrom(stopPump(m, i), i + 1)

\* void handleEmergencyStop()
handleEmergencyStop(m) == println(stopFrom(m, 0), OK)

statusBit(m, i) == IF m.pumps[i].isRunning THEN "1" ELSE "0"

\* handleStatusRequest with the flags of X and Y printed under each other's key
handleStatusRequestSwapped(m) ==
  println(m, <<"{\"X\":", statusBit(m, 1), ",\"Y\":", statusBit(m, 0),
               ",\"Z\":", statusBit(m, 2), ",\"A\":", statusBit(m, 3), "}">>)

\* void handleStatusRequest()
handleStatusRequest(m) ==
  println(m, <<"{\"X\":", statusBit(m, 0), ",\"Y\":", statusBit(m, 1),
               ",\"Z\":", statusBit(m, 2), ",\"A\":", statusBit(m, 3), "}">>)

kSTART == <<"S", "T", "A", "R", "T">>
kSTOP == <<"S", "T", "O", "P">>
kEMERGENCY == <<"E", "M", "E", "R", "G", "E", "N", "C", "Y">>
kSTATUS == <<"S", "T", "A", "T", "U", "S">>

\* void processCommand(String command)
processCommand(m, line, nowMillis, nowMicros) ==
  LET command == trim(line)
  IN  IF startsWith(command, kSTART)
        THEN handleStartCommand(m, command, nowMillis, nowMicros)
      ELSE IF startsWith(command, kSTOP) THEN handleStopCommand(m, command)
      ELSE IF command = kEMERGENCY THEN handleEmergencyStop(m)
      ELSE IF command = kSTATUS THEN handleStatusRequest(m)
      ELSE println(m, ERR_UNKNOWN)

(***************************************************************************)
(* The scheduler.  pump->duration * 1000 is an int product: past 16 bits   *)
(* it overflows (undefined behaviour).  A build either keeps the low 16    *)
(* bits and sign-extends them, or multiplies in the wider type the cast    *)
(* asks for; wide says which.  A negative threshold stands for the         *)
(* unsigned long 2^32 + threshold, which no elapsed time of this model     *)
(* reaches.                                                                *)
(***************************************************************************)
durationMillis(duration, wide) ==
  IF wide THEN duration * MillisPerSecond
  ELSE toInt16(duration * MillisPerSecond)

elapsedReached(elapsed, threshold) == threshold >= 0 /\ elapsed >= threshold

\* (nowMicros - pump->lastStepTime) >= pump->intervalMicros
stepDue(pump, nowMicros) ==
  LET q == pump.intervalMicros
  IN  ~q.nan /\ (nowMicros - pump.lastStepTime) >= (q.num + q.den - 1) \div q.den

\* the loop body with the duration check applied to continuous channels too
updatePumpIgnoresContinuous(m, i, nowMillis, nowMicros, wide) ==
  LET pump == m.pumps[i]
  IN  IF ~pump.isRunning THEN m
      ELSE IF elapsedReached(nowMillis - pump.startTime,
                             durationMillis(pump.duration, wide))
        THEN stopPump(m, i)
      ELSE IF stepDue(pump, nowMicros)
        THEN [digitalWrite(digitalWrite(m, stepPin(i), "HIGH"), stepPin(i), "LOW")
                EXCEPT !.pumps[i].lastStepTime = nowMicros]
      ELSE m

\* the body of the for loop of updatePumps for channel i
updatePump(m, i, nowMillis, nowMicros, wide) ==
  LET pump == m.pumps[i]
  IN  IF ~pump.isRunning THEN m
      ELSE IF ~pump.continuous
              /\ elapsedReached(nowMillis - pump.startTime,
                                durationMillis(pump.duration, wide))
        THEN stopPump(m, i)
      ELSE IF stepDue(pump, nowMicros)
        THEN [digitalWrite(digitalWrite(m, stepPin(i), "HIGH"), stepPin(i), "LOW")
                EXCEPT !.pumps[i].lastStepTime = nowMicros]
      ELSE m

RECURSIVE updateFromBreaksOnStop(_, _, _, _, _)
\* the loop of updatePumps with break in place of continue after stopPump(i)
updateFromBreaksOnStop(m, i, nowMillis, nowMicros, wide) ==
  IF i >= NumPumps THEN m
  ELSE LET m1 == updatePump(m, i, nowMillis, nowMicros, wide)
       IN  IF m.pumps[i].isRunning /\ ~m1.pumps[i].isRunning THEN m1
           ELSE updateFromBreaksOnStop(m1, i + 1, nowMillis, nowMicros, wide)

RECURSIVE updateFrom(_, _, _, _, _)
updateFrom(m, i, nowMillis, nowMicros, wide) ==
  IF i >= NumPumps THEN m
  ELSE updateFrom(updatePump(m, i, nowMillis, nowMicros, wide), i + 1,
                  nowMillis, nowMicros, wide)

\* void updatePumps()
updatePumps(m, nowMillis, nowMicros, wide) ==
  updateFrom(m, 0, nowMillis, nowMicros, wide)


(***************************************************************************)
(* The host: the lines it may write to the serial link.                    *)
(***************************************************************************)
comma == <<",">>

\* START,<id>,<rpm>,<durationSeconds>,<continuous> as the host writes it
StartText(id, rpm, dur, cont) ==
  kSTART \o comma \o <<id>> \o comma \o printInt(rpm) \o comma
         \o printInt(dur) \o comma \o printInt(cont)

\* STOP,<id>
StopText(id) == kSTOP \o comma \o <<id>>

\* the frame that carries a line: the line and its terminator
Frame(l) == l \o <<"\n">>

FramesOf(ls) == {Frame(l) : l \in ls}

\* The vocabularies of the host.  A behaviour draws all its lines from one.
Lifecycle ==
  {StartText("X", 50, 1, 0), StartText("Y", 50, 1, 0), StopText("X"),
   kEMERGENCY, kSTATUS}

Channels ==
  {StartText(id, 50, 1, 0) : id \in {"Z", "A", "Q"}}
    \cup {StopText("Z"), StopText("Q"), kEMERGENCY}

\* START,<id>,nan,<durationSeconds>,<continuous>
StartNanText(id, dur, cont) ==
  kSTART \o comma \o <<id>> \o comma \o <<"n", "a", "n">> \o comma
         \o printInt(dur) \o comma \o printInt(cont)

RpmRange ==
  {StartText("X", r, 1, 0) : r \in {50, -50, 0, 3000, 3001, -3000, -3001}}
    \cup {StartNanText("X", 1, 0)}

Durations ==
  {StartText("X", 50, d, c) : d \in {0, 1, 66}, c \in {0, 1}} \cup {kSTATUS}

Malformed ==
  { StartText("X", 50, 1, 0),
    kSTART \o comma \o <<"X">> \o comma \o <<"5", "0">> \o comma \o <<"1">>,
    StartText("Y", 50, 1, 0) \o comma \o <<"9">>,
    <<"S", "T", "A", "R", "T", "S">> \o comma \o <<"Y">> \o comma \o <<"5", "0">>
       \o comma \o <<"1">> \o comma \o <<"0">>,
    kSTOP,
    kSTOP \o comma,
    <<"S", "T", "O", "P", "S">> \o comma \o <<"X">>,
    StopText("X") \o <<"Q">>,
    <<"s", "t", "a", "t", "u", "s">>,
    <<>> }

Burst == {StopText("X"), kSTATUS}

\* continuous runs, and a <continuous> field that is neither 0 nor 1
Modes ==
  {StartText("X", 50, 0, 1), StartText("X", 50, 0, 2), StopText("X"), kEMERGENCY}

\* two channels with different finite durations
Timers == {StartText("X", 50, 1, 0), StartText("Y", 50, 2, 0), kSTATUS}

\* a run whose duration times 1000 does not fit a 16-bit int
LongRun == {StartText("X", 50, 33, 0)}

\* The hosts: one that waits for the answer to a line before it writes the
\* next, with each host, and one that writes without waiting.
Hosts ==
  {[frames |-> fs, waits |-> TRUE] :
     fs \in {FramesOf(Lifecycle) \cup {kSTATUS \o <<"\r", "\n">>},
             FramesOf(Channels), FramesOf(RpmRange), FramesOf(Durations),
             FramesOf(Malformed), FramesOf(Modes), FramesOf(Timers),
             FramesOf(LongRun)}}
    \cup {[frames |-> FramesOf(Burst), waits |-> FALSE]}

\* the time between two scheduler passes that are not back to back, while
\* host h is connected
tickMillis(h) ==
  IF h.frames = FramesOf(LongRun) THEN SlowTickMillis ELSE TickMillis

\* the line a frame carries: the frame without its terminator
FrameLine(f) ==
  LET body == SubSeq(f, 1, Len(f) - 1)
  IN  IF body # <<>> /\ body[Len(body)] = "\r"
      THEN SubSeq(body, 1, Len(body) - 1) ELSE body

(***************************************************************************)
(* The browser frontend (script.js, class PumpController).  The page is    *)
(*   pumpStates   : this.pumpStates, the frontend's record of each pump    *)
(*   display      : the class of each pump's status indicator              *)
(*   systemStatus : the text of the systemStatus element ("" as loaded)    *)
(* The server is not part of the sources: what it answers is any result.   *)
(***************************************************************************)
MaxPolls == 2          \* firings of the status timer in one behaviour

thisPumps == <<"X", "Y", "Z">>

PagePumps == {thisPumps[k] : k \in 1 .. Len(thisPumps)}

StatusKeys == {"X", "Y", "Z", "A"}

\* the bodies a status request is answered with: success, and status, an
\* object with a 0 or 1 under some of the keys, or no status at all
StatusMaps == UNION {[d -> {0, 1}] : d \in SUBSET StatusKeys}

Results ==
  [success : BOOLEAN, hasStatus : {TRUE}, status : StatusMaps]
    \cup [success : BOOLEAN, hasStatus : {FALSE}, status : {<<>>}]

InitPumpState == [running |-> FALSE, rpm |-> 0, time |-> 0, continuous |-> FALSE]

\* updatePumpDisplay(pump)
updatePumpDisplay(pg, pump) ==
  [pg EXCEPT !.display[pump] =
     IF pg.pumpStates[pump].running THEN "running" ELSE "stopped"]

RECURSIVE updateDisplayFrom(_, _)
\* this.pumps.forEach(pump => this.updatePumpDisplay(pump)) from index k on
updateDisplayFrom(pg, k) ==
  IF k > Len(thisPumps) THEN pg
  ELSE updateDisplayFrom(updatePumpDisplay(pg, thisPumps[k]), k + 1)

\* updateDisplay(), its effect on the pump displays
updateDisplay(pg) == updateDisplayFrom(pg, 1)

RECURSIVE statusForEachAll(_, _, _)
\* the forEach of getStatus without its test for a missing entry: undefined
\* === 1 is false
statusForEachAll(pg, result, k) ==
  IF k > Len(thisPumps) THEN pg
  ELSE LET pump == thisPumps[k]
           on == pump \in DOMAIN result.status /\ result.status[pump] = 1
       IN  statusForEachAll(
             updatePumpDisplay([pg EXCEPT !.pumpStates[pump].running = on], pump),
             result, k + 1)

RECURSIVE statusForEach(_, _, _)
\* the forEach of getStatus from index k on
statusForEach(pg, result, k) ==
  IF k > Len(thisPumps) THEN pg
  ELSE LET pump == thisPumps[k]
       IN  IF pump \in DOMAIN result.status
           THEN statusForEach(
                  updatePumpDisplay(
                    [pg EXCEPT !.pumpStates[pump].running = (result.status[pump] = 1)],
                    pump),
                  result, k + 1)
           ELSE statusForEach(pg, result, k + 1)

\* getStatus() from the point where response.json() has produced result.
\* Reading result.status[pump] of a result without status throws, which
\* the catch turns into 'Disconnected'.
getStatus(pg, result) ==
  IF result.success
  THEN IF result.hasStatus
       THEN [statusForEach(pg, result, 1) EXCEPT !.systemStatus = "Ready"]
       ELSE [pg EXCEPT !.systemStatus = "Disconnected"]
  ELSE [pg EXCEPT !.systemStatus = "Error"]

\* the catch block of getStatus(): fetch or response.json() has thrown
getStatusCatch(pg) == [pg EXCEPT !.systemStatus = "Disconnected"]

(***************************************************************************)
(* The user's actions.  An async method runs up to its fetch and is        *)
(* resumed with the outcome of the fetch and of response.json():           *)
(*   "success"   : a result with success true                              *)
(*   "failure"   : a result with success false                             *)
(*   "exception" : fetch or response.json() has thrown                     *)
(* showNotification only adds a notification element to the document,      *)
(* which is not part of the page modelled here.                            *)
(***************************************************************************)
MaxClicks == 1         \* clicks on the buttons in one behaviour

Outcomes == {"success", "failure", "exception"}

\* what the inputs of a pump card may hold when startPump reads them
Forms ==
  {[rpm |-> <<"5", "0">>, time |-> <<"1", "0">>, continuous |-> FALSE],
   [rpm |-> <<"0">>, time |-> <<"1", "0">>, continuous |-> FALSE],
   [rpm |-> <<"a", "b", "c">>, time |-> <<>>, continuous |-> TRUE]}

\* whether parseFloat / parseInt find a numeral at the start of the text
hasNumeral(s) ==
  LET t == trimLeft(s)
      u == IF t # <<>> /\ Head(t) \in {"-", "+"} THEN Tail(t) ELSE t
  IN  u # <<>> /\ isDigit(Head(u))

\* parseFloat(value) || 0, for a text without fraction or exponent: NaN
\* and 0 both give 0
parseFloatOr0(s) == IF hasNumeral(s) THEN atol(s) ELSE 0

\* parseInt(value) || 0
parseIntOr0(s) == IF hasNumeral(s) THEN atol(s) ELSE 0

\* the methods' fetches that are under way: the request, the number seq of
\* the fetch in the order of sending, and what the method resumes with
\* (the values startPump read, and for a startPump called by
\* startSelectedPumps the batch and the selected pumps still to start)
Request(op, pump, seq, rpm, time, continuous, batch, rest) ==
  [op |-> op, pump |-> pump, seq |-> seq, rpm |-> rpm, time |-> time,
   continuous |-> continuous, batch |-> batch, rest |-> rest]

\* startPump(pump) up to its fetch, with the inputs holding form: whether
\* a request is sent, and the values read
startPumpRequest(form) ==
  LET rpm == parseFloatOr0(form.rpm)
  IN  [sent |-> rpm # 0, rpm |-> rpm, time |-> parseIntOr0(form.time),
       continuous |-> form.continuous]

\* startPump(pump) resumed after its fetch
startPumpResponse(pg, req, outcome) ==
  IF outcome = "success"
  THEN updatePumpDisplay(
         [pg EXCEPT !.pumpStates[req.pump] =
            [running |-> TRUE, rpm |-> req.rpm, time |-> req.time,
             continuous |-> req.continuous]],
         req.pump)
  ELSE pg

\* stopPump(pump) that clears the flag whatever the result says
stopPumpResponseAlways(pg, pump, outcome) ==
  IF outcome # "exception"
  THEN updatePumpDisplay([pg EXCEPT !.pumpStates[pump].running = FALSE], pump)
  ELSE pg

\* stopPump(pump) resumed after its fetch
stopPumpResponse(pg, pump, outcome) ==
  IF outcome = "success"
  THEN updatePumpDisplay([pg EXCEPT !.pumpStates[pump].running = FALSE], pump)
  ELSE pg

RECURSIVE emergencyStopFrom(_, _)
\* the forEach of emergencyStop from index k on
emergencyStopFrom(pg, k) ==
  IF k > Len(thisPumps) THEN pg
  ELSE emergencyStopFrom(
         updatePumpDisplay([pg EXCEPT !.pumpStates[thisPumps[k]].running = FALSE],
                           thisPumps[k]),
         k + 1)

\* emergencyStop() resumed after its fetch
emergencyStopResponse(pg, outcome) ==
  IF outcome = "success" THEN emergencyStopFrom(pg, 1) ELSE pg

\* the checked pump checkboxes, in the order of the document
RECURSIVE selectedPumpsFrom(_, _)
selectedPumpsFrom(checked, k) ==
  IF k > Len(thisPumps) THEN <<>>
  ELSE (IF thisPumps[k] \in checked THEN <<thisPumps[k]>> ELSE <<>>)
         \o selectedPumpsFrom(checked, k + 1)

selectedPumps(checked) == selectedPumpsFrom(checked, 1)

\* one call of startPump by startSelectedPumps, as the batch remembers it
Called(pump, call) == [pump |-> pump, rpm |-> call.rpm, sent |-> call.sent]

RECURSIVE startSelectedLoop(_, _, _)
\* the for loop of startSelectedPumps over the pumps still to start, with
\* the inputs holding forms: startPump is called for one pump after the
\* other until a call sends a request, which the loop awaits.  The calls
\* made, and the pumps left for after the awaited request.
startSelectedLoop(todo, forms, calls) ==
  IF todo = <<>> THEN [calls |-> calls, awaits |-> FALSE, rest |-> <<>>]
  ELSE LET pump == Head(todo)
           call == startPumpRequest(forms[pump])
       IN  IF call.sent
           THEN [calls |-> Append(calls, Called(pump, call)), awaits |-> TRUE,
                 rest |-> Tail(todo)]
           ELSE startSelectedLoop(Tail(todo), forms, Append(calls, Called(pump, call)))

\* startSelectedPumps resumed by a startPump that lets the exception of its
\* fetch escape: the loop is abandoned
startSelectedResumeThrows(rest, forms, outcome) ==
  IF outcome = "exception" THEN [calls |-> <<>>, awaits |-> FALSE, rest |-> <<>>]
  ELSE startSelectedLoop(rest, forms, <<>>)

\* startSelectedPumps resumed when the startPump it awaits has returned:
\* startPump catches what its fetch throws, so the loop goes on whatever
\* the outcome
startSelectedResume(rest, forms, outcome) == startSelectedLoop(rest, forms, <<>>)

(***************************************************************************)
(* State.                                                                  *)
(***************************************************************************)
VARIABLES
  pumps,          \* Pump pumps[4]
  pin,            \* level of each output pin
  inputString,    \* String inputString
  stringComplete, \* bool stringComplete
  host,           \* the host of this behaviour: its frames, whether it waits
  wire,           \* bytes written by the host that serialEvent has not read
  nSent,          \* frames the host has written
  clock,          \* the hardware clock, in microseconds
  pc,             \* position in for (;;) { loop(); serialEventRun(); }
  serialOut,      \* lines printed by the last processCommand / updatePumps
  pinWrites,      \* digitalWrite calls of the last processCommand / updatePumps
  dispatched,     \* whether the last loop() called processCommand
  command,        \* the String the last loop() gave to processCommand
  prevEmergency,  \* whether the command dispatched before command was EMERGENCY
  lastEmergency,  \* whether the last command dispatched was EMERGENCY
  pending,        \* lines written by the host and not dispatched yet
  expected,       \* the oldest pending line when command was dispatched
  pulseCount,     \* pulses emitted for each channel since its last start
  page,           \* the frontend: pumpStates, display, systemStatus
  requests,       \* the fetches that have not been answered
  nRequests,      \* fetches sent so far
  nPolls,         \* firings of the status timer
  nClicks,        \* clicks on the buttons
  answer,         \* the fetch whose outcome the last callback handled
  startForm,      \* the inputs read by the click on a start button, if last
  batches,        \* the runs of startSelectedPumps: selection, calls, end
  acknowledged,   \* per pump, the last start/stop fetch answered with success
  event,          \* the frontend callback that ran last
  result,         \* the result the last answered getStatus() received
  trial           \* two RPMs as singles, and the intervals startPump gave them

firmwareVars ==
  <<pumps, pin, inputString, stringComplete, host, wire, nSent, clock,
    pc, serialOut, pinWrites, dispatched, command, prevEmergency, lastEmergency,
    pending, expected, pulseCount>>

frontendVars ==
  <<page, requests, nRequests, nPolls, nClicks, answer, startForm, batches,
    acknowledged, event, result>>

numericVars == <<trial>>

vars == <<firmwareVars, frontendVars, numericVars>>

millis == clock \div 1000
micros == clock

\* the machine state a step starts from
Machine == [pumps |-> pumps, pin |-> pin, out |-> <<>>, writes |-> <<>>]


\* the lines out of a step report a start of channel i
started(out, i) ==
  \E k \in 1 .. Len(out) :
    Len(out[k]) >= 2 /\ out[k][1] = "Started pump " /\ out[k][2] = name(i)

\* the pulses of channel i among the digitalWrite calls writes
pulsesIn(writes, i) ==
  Cardinality({k \in 1 .. Len(writes) : writes[k] = <<stepPin(i), "HIGH">>})

RECURSIVE readAll(_, _, _)
\* the while loop of serialEvent over the bytes buf: the resulting
\* inputString and stringComplete
readAll(buf, str, complete) ==
  IF buf = <<>> THEN [inputString |-> str, stringComplete |-> complete]
  ELSE IF Head(buf) = "\n" THEN readAll(Tail(buf), str, TRUE)
  ELSE IF Head(buf) # "\r" THEN readAll(Tail(buf), Append(str, Head(buf)), complete)
  ELSE readAll(Tail(buf), str, complete)

(***************************************************************************)
(* Init: the state setup() leaves.                                         *)
(***************************************************************************)
\* the board after setup()
SetupDone ==
  /\ pumps = [i \in PumpIdx |-> InitPump]
  /\ pin = [p \in Pins |-> IF \E i \in PumpIdx : p = enablePin(i) THEN "HIGH" ELSE "LOW"]
  /\ inputString = <<>>
  /\ stringComplete = FALSE
  /\ wire = <<>>
  /\ nSent = 0
  /\ clock = 0
  /\ pc = "loop"
  /\ serialOut = << <<"Arduino Pump Controller Ready (Direct Pulse Mode)">> >>
  /\ pinWrites = <<>>
  /\ dispatched = FALSE
  /\ command = <<>>
  /\ prevEmergency = FALSE
  /\ lastEmergency = FALSE
  /\ pending = <<>>
  /\ expected = <<>>
  /\ pulseCount = [i \in PumpIdx |-> 0]

\* the last callback was no click on a start button
NoForm == [rpm |-> <<>>, time |-> <<>>, continuous |-> FALSE]

\* no fetch was handled by the last callback
NoAnswer == [op |-> "", pump |-> "", seq |-> 0, outcome |-> ""]

\* the fetch req answered with outcome
Answer(req, outcome) ==
  [op |-> req.op, pump |-> req.pump, seq |-> req.seq, outcome |-> outcome]

\* the fetches of /status under way
statusFetches == {req \in requests : req.op = "status"}

\* the page after new PumpController()
Constructed ==
  /\ page = updateDisplay([pumpStates |-> [p \in PagePumps |-> InitPumpState],
                           display |-> [p \in PagePumps |-> ""],
                           systemStatus |-> ""])
  /\ requests = {}
  /\ nRequests = 0
  /\ nPolls = 0
  /\ nClicks = 0
  /\ answer = NoAnswer
  /\ startForm = NoForm
  /\ batches = <<>>
  /\ acknowledged = [pump \in PagePumps |-> 0]
  /\ event = "constructor"
  /\ result = [success |-> FALSE, hasStatus |-> FALSE, status |-> <<>>]

\* no RPM pair is under trial
NoTrial == [rpm |-> <<>>, intervalMicros |-> <<>>]

Init == host \in Hosts /\ SetupDone /\ Constructed /\ trial = NoTrial

(***************************************************************************)
(* The host writes a frame behind the bytes still on their way.  The       *)
(* firmware sees the link only in serialEvent, so the frames written since *)
(* the last call are queued when the next one is about to run.             *)
(***************************************************************************)
HostWrite(f) ==
  /\ pc = "serialEvent"
  /\ nSent < MaxLines
  /\ host.waits => pending = <<>>
  /\ wire' = wire \o f
  /\ nSent' = nSent + 1
  /\ pending' = Append(pending, FrameLine(f))
  /\ UNCHANGED <<pumps, pin, inputString, stringComplete, host, clock, pc,
                 serialOut, pinWrites, dispatched, command, prevEmergency,
                 lastEmergency, expected, pulseCount>>
  /\ UNCHANGED <<frontendVars, numericVars>>

\* serialEventRun(): serialEvent() reads the bytes that have arrived, the
\* first k of those written
SerialEvent ==
  /\ pc = "serialEvent"
  /\ \E k \in 0 .. Len(wire) :
       LET r == readAll(SubSeq(wire, 1, k), inputString, stringComplete)
       IN  /\ inputString' = r.inputString
           /\ stringComplete' = r.stringComplete
           /\ wire' = SubSeq(wire, k + 1, Len(wire))
  /\ pc' = "loop"
  /\ UNCHANGED <<pumps, pin, host, nSent, clock, serialOut, pinWrites,
                 dispatched, command, prevEmergency, lastEmergency, pending,
                 expected, pulseCount>>
  /\ UNCHANGED <<frontendVars, numericVars>>

\* loop(), its first statement: if (stringComplete) { processCommand ... }
LoopCommand ==
  /\ pc = "loop"
  /\ pc' = "updatePumps"
  /\ IF stringComplete
     THEN LET m == processCommand(Machine, inputString, millis, micros)
          IN  /\ pumps' = m.pumps
              /\ pin' = m.pin
              /\ serialOut' = m.out
              /\ pinWrites' = m.writes
              /\ inputString' = <<>>
              /\ stringComplete' = FALSE
              /\ dispatched' = TRUE
              /\ command' = inputString
              /\ prevEmergency' = lastEmergency
              /\ lastEmergency' = (trim(inputString) = kEMERGENCY)
              /\ expected' = IF pending = <<>> THEN <<>> ELSE Head(pending)
              /\ pending' = IF pending = <<>> THEN <<>> ELSE Tail(pending)
              /\ pulseCount' = [i \in PumpIdx |->
                                  IF started(m.out, i) THEN 0 ELSE pulseCount[i]]
     ELSE /\ dispatched' = FALSE
          /\ command' = <<>>
          /\ expected' = <<>>
          /\ prevEmergency' = FALSE
          /\ serialOut' = <<>>
          /\ pinWrites' = <<>>
          /\ UNCHANGED <<pumps, pin, inputString, stringComplete, pending,
                         lastEmergency, pulseCount>>
  /\ UNCHANGED <<host, wire, nSent, clock>>
  /\ UNCHANGED <<frontendVars, numericVars>>

\* loop(), its second statement: updatePumps(), reading the clock, which
\* has advanced by less than a millisecond or by a tick since the last
\* pass
UpdatePumps ==
  /\ pc = "updatePumps"
  /\ pc' = "serialEvent"
  /\ \E delta \in {0, tickMillis(host) * 1000} :
       /\ clock + delta <= MaxTicks * tickMillis(host) * 1000
       /\ clock' = clock + delta
       /\ \E wide \in BOOLEAN :
            LET m == updatePumps(Machine, (clock + delta) \div 1000, clock + delta, wide)
            IN  /\ pumps' = m.pumps
                /\ pin' = m.pin
                /\ serialOut' = m.out
                /\ pinWrites' = m.writes
                /\ pulseCount' = [i \in PumpIdx |-> pulseCount[i] + pulsesIn(m.writes, i)]
  /\ UNCHANGED <<inputString, stringComplete, host, wire, nSent,
                 dispatched, command, prevEmergency, lastEmergency, pending,
                 expected>>
  /\ UNCHANGED <<frontendVars, numericVars>>

Next ==
  \/ \E f \in host.frames : HostWrite(f)
  \/ SerialEvent
  \/ LoopCommand
  \/ UpdatePumps

Spec == Init /\ [][Next]_vars

(***************************************************************************)
(* The frontend alone, in front of a server that answers anything: the     *)
(* board stays as setup() left it, with a host that writes nothing.        *)
(***************************************************************************)
PageInit ==
  /\ host = [frames |-> {}, waits |-> TRUE]
  /\ SetupDone /\ Constructed /\ trial = NoTrial

\* the setInterval callback of startStatusUpdates(): getStatus() up to its
\* fetch, then updateDisplay()
StatusTimer ==
  /\ nPolls < MaxPolls
  /\ nPolls' = nPolls + 1
  /\ nRequests' = nRequests + 1
  /\ requests' = requests \cup
       {Request("status", "", nRequests + 1, 0, 0, FALSE, 0, <<>>)}
  /\ page' = updateDisplay(page)
  /\ event' = "timer"
  /\ answer' = NoAnswer
  /\ startForm' = NoForm
  /\ UNCHANGED <<nClicks, batches, acknowledged, result>>
  /\ UNCHANGED <<firmwareVars, numericVars>>

\* getStatus() resumed with the answer to one of its fetches
GetStatusAnswered(r) ==
  /\ \E req \in statusFetches :
       /\ requests' = requests \ {req}
       /\ page' = getStatus(page, r)
       /\ result' = r
       /\ answer' = Answer(req, IF r.success THEN "success" ELSE "failure")
  /\ event' = "getStatus"
  /\ startForm' = NoForm
  /\ UNCHANGED <<nRequests, nPolls, nClicks, batches, acknowledged>>
  /\ UNCHANGED <<firmwareVars, numericVars>>

\* getStatus() resumed with a failed fetch
GetStatusFailed ==
  /\ \E req \in statusFetches :
       /\ requests' = requests \ {req}
       /\ answer' = Answer(req, "exception")
  /\ page' = getStatusCatch(page)
  /\ event' = "getStatus failed"
  /\ startForm' = NoForm
  /\ UNCHANGED <<nRequests, nPolls, nClicks, batches, acknowledged, result>>
  /\ UNCHANGED <<firmwareVars, numericVars>>

PageNext ==
  \/ StatusTimer
  \/ \E r \in Results : GetStatusAnswered(r)
  \/ GetStatusFailed

PageSpec == PageInit /\ [][PageNext]_vars

(***************************************************************************)
(* The frontend with its user: the status timer and the buttons, every     *)
(* fetch answered, or failing, at any later time and in any order.  The    *)
(* status answers are the few of ControlResults.  ControlSpec has the      *)
(* timer and the buttons that act on one pump or stop all; BatchSpec has   *)
(* the start selected button.                                              *)
(***************************************************************************)
AllPumps(bit) == [pump \in PagePumps |-> bit]

ControlResults ==
  {[success |-> TRUE, hasStatus |-> TRUE, status |-> AllPumps(0)],
   [success |-> TRUE, hasStatus |-> TRUE, status |-> AllPumps(1)],
   [success |-> FALSE, hasStatus |-> FALSE, status |-> <<>>]}

ControlInit == PageInit

\* a click on the start button of a pump card, which is enabled while the
\* pump is shown stopped: startPump(pump) up to its fetch
ClickStart(pump, form) ==
  /\ nClicks < MaxClicks
  /\ page.display[pump] = "stopped"
  /\ nClicks' = nClicks + 1
  /\ LET call == startPumpRequest(form)
     IN  IF call.sent
         THEN /\ nRequests' = nRequests + 1
              /\ requests' = requests \cup
                   {Request("start", pump, nRequests + 1, call.rpm, call.time,
                            call.continuous, 0, <<>>)}
              /\ event' = "startPump"
         ELSE /\ UNCHANGED <<nRequests, requests>>
              /\ event' = "startPump refused"
  /\ answer' = NoAnswer
  /\ startForm' = form
  /\ UNCHANGED <<page, nPolls, batches, acknowledged, result>>
  /\ UNCHANGED <<firmwareVars, numericVars>>

\* a click on the stop button of a pump card, which is enabled while the
\* pump is shown running: stopPump(pump) up to its fetch
ClickStop(pump) ==
  /\ nClicks < MaxClicks
  /\ page.display[pump] = "running"
  /\ nClicks' = nClicks + 1
  /\ nRequests' = nRequests + 1
  /\ requests' = requests \cup
       {Request("stop", pump, nRequests + 1, 0, 0, FALSE, 0, <<>>)}
  /\ event' = "stopPump"
  /\ answer' = NoAnswer
  /\ startForm' = NoForm
  /\ UNCHANGED <<page, nPolls, batches, acknowledged, result>>
  /\ UNCHANGED <<firmwareVars, numericVars>>

\* a click on the emergency stop button: emergencyStop() up to its fetch
ClickEmergencyStop ==
  /\ nClicks < MaxClicks
  /\ nClicks' = nClicks + 1
  /\ nRequests' = nRequests + 1
  /\ requests' = requests \cup
       {Request("emergency", "", nRequests + 1, 0, 0, FALSE, 0, <<>>)}
  /\ event' = "emergencyStop"
  /\ answer' = NoAnswer
  /\ startForm' = NoForm
  /\ UNCHANGED <<page, nPolls, batches, acknowledged, result>>
  /\ UNCHANGED <<firmwareVars, numericVars>>

\* startSelectedPumps() with the boxes of checked ticked and the inputs
\* holding forms, up to the first fetch of a startPump it calls or to its
\* end
startSelectedPumpsWith(checked, forms) ==
  /\ nClicks < MaxClicks
  /\ nClicks' = nClicks + 1
  /\ LET selected == selectedPumps(checked)
         loop == startSelectedLoop(selected, forms, <<>>)
         call == loop.calls[Len(loop.calls)]
     IN  /\ batches' = Append(batches, [selected |-> selected, calls |-> loop.calls,
                                        done |-> ~loop.awaits])
         /\ IF loop.awaits
            THEN /\ nRequests' = nRequests + 1
                 /\ requests' = requests \cup
                      {Request("start", call.pump, nRequests + 1, call.rpm,
                               parseIntOr0(forms[call.pump].time),
                               forms[call.pump].continuous,
                               Len(batches) + 1, loop.rest)}
            ELSE UNCHANGED <<nRequests, requests>>
  /\ event' = "startSelectedPumps"
  /\ answer' = NoAnswer
  /\ startForm' = NoForm
  /\ UNCHANGED <<page, nPolls, acknowledged, result>>
  /\ UNCHANGED <<firmwareVars, numericVars>>

\* a click on the start selected button with the boxes of checked ticked
ClickStartSelected(checked) ==
  \E forms \in [checked -> Forms] : startSelectedPumpsWith(checked, forms)

\* what the inputs may hold of the pumps that startSelectedPumps has still
\* to start when the startPump answered by req returns
FormsFor(req) == [{req.rest[k] : k \in 1 .. Len(req.rest)} -> Forms]

\* startPump(pump) resumed with the outcome of its fetch; if
\* startSelectedPumps awaits it, its loop then goes on, with the inputs
\* holding forms, up to the next fetch or to its end
startPumpAnsweredWith(req, outcome, forms) ==
  /\ req \in requests /\ req.op = "start"
  /\ page' = startPumpResponse(page, req, outcome)
  /\ answer' = Answer(req, outcome)
  /\ acknowledged' = IF outcome = "success"
                     THEN [acknowledged EXCEPT ![req.pump] = req.seq]
                     ELSE acknowledged
  /\ IF req.batch = 0
     THEN /\ requests' = requests \ {req}
          /\ UNCHANGED <<nRequests, batches>>
     ELSE LET loop == startSelectedResume(req.rest, forms, outcome)
              call == loop.calls[Len(loop.calls)]
          IN  /\ batches' = [batches EXCEPT ![req.batch].calls = @ \o loop.calls,
                                              ![req.batch].done = ~loop.awaits]
              /\ IF loop.awaits
                 THEN /\ nRequests' = nRequests + 1
                      /\ requests' = (requests \ {req}) \cup
                           {Request("start", call.pump, nRequests + 1, call.rpm,
                                    parseIntOr0(forms[call.pump].time),
                                    forms[call.pump].continuous,
                                    req.batch, loop.rest)}
                 ELSE /\ requests' = requests \ {req}
                      /\ UNCHANGED nRequests
  /\ event' = "startPump answered"
  /\ startForm' = NoForm
  /\ UNCHANGED <<nPolls, nClicks, result>>
  /\ UNCHANGED <<firmwareVars, numericVars>>

\* startPump(pump) resumed with the outcome of its fetch
StartAnswered(req, outcome) ==
  \E forms \in FormsFor(req) : startPumpAnsweredWith(req, outcome, forms)

\* stopPump(pump) resumed with the outcome of its fetch
StopAnswered(req, outcome) ==
  /\ req \in requests /\ req.op = "stop"
  /\ requests' = requests \ {req}
  /\ page' = stopPumpResponse(page, req.pump, outcome)
  /\ answer' = Answer(req, outcome)
  /\ acknowledged' = IF outcome = "success"
                     THEN [acknowledged EXCEPT ![req.pump] = req.seq]
                     ELSE acknowledged
  /\ event' = "stopPump answered"
  /\ startForm' = NoForm
  /\ UNCHANGED <<nRequests, nPolls, nClicks, batches, result>>
  /\ UNCHANGED <<firmwareVars, numericVars>>

\* emergencyStop() resumed with the outcome of its fetch
EmergencyStopAnswered(req, outcome) ==
  /\ req \in requests /\ req.op = "emergency"
  /\ requests' = requests \ {req}
  /\ page' = emergencyStopResponse(page, outcome)
  /\ answer' = Answer(req, outcome)
  /\ event' = "emergencyStop answered"
  /\ startForm' = NoForm
  /\ UNCHANGED <<nRequests, nPolls, nClicks, batches, acknowledged, result>>
  /\ UNCHANGED <<firmwareVars, numericVars>>

ControlNext ==
  \/ StatusTimer
  \/ \E r \in ControlResults : GetStatusAnswered(r)
  \/ GetStatusFailed
  \/ \E pump \in PagePumps, form \in Forms : ClickStart(pump, form)
  \/ \E pump \in PagePumps : ClickStop(pump)
  \/ ClickEmergencyStop
  \/ \E req \in requests, outcome \in Outcomes : StartAnswered(req, outcome)
  \/ \E req \in requests, outcome \in Outcomes : StopAnswered(req, outcome)
  \/ \E req \in requests, outcome \in Outcomes : EmergencyStopAnswered(req, outcome)

ControlSpec == ControlInit /\ [][ControlNext]_vars

BatchInit == PageInit

BatchNext ==
  \/ \E checked \in SUBSET PagePumps : ClickStartSelected(checked)
  \/ \E req \in requests, outcome \in Outcomes : StartAnswered(req, outcome)

BatchSpec == BatchInit /\ [][BatchNext]_vars

(***************************************************************************)
(* The interval computation alone: two RPMs, each handed to the RPM check  *)
(* of handleStartCommand and, if it passes, to the interval computation of *)
(* startPump, one after the other.  The board and the page stay as loaded. *)
(***************************************************************************)
\* what the interval computation left for an RPM
Computed(x) == [accepted |-> TRUE, value |-> x]
Refused == [accepted |-> FALSE, value |-> single(FALSE, 0, 0)]

IntervalInit ==
  /\ host = [frames |-> {}, waits |-> TRUE]
  /\ SetupDone /\ Constructed
  /\ trial \in {[rpm |-> <<a, b>>, intervalMicros |-> <<>>] : a, b \in SingleRpms}

\* the RPM check and the interval computation for the next RPM of the pair
StartSingle ==
  /\ Len(trial.intervalMicros) < Len(trial.rpm)
  /\ LET rpm == trial.rpm[Len(trial.intervalMicros) + 1]
     IN  trial' = [trial EXCEPT !.intervalMicros =
                     Append(@, IF rpmOutOfRangeSingle(rpm) THEN Refused
                               ELSE Computed(stepIntervalSingle(rpm)))]
  /\ UNCHANGED <<firmwareVars, frontendVars>>

IntervalNext == StartSingle

IntervalSpec == IntervalInit /\ [][IntervalNext]_vars


(***************************************************************************)
(* Vocabulary of the properties.                                           *)
(***************************************************************************)
\* the state right after loop() has given command to processCommand:
\* serialOut and pinWrites are what that call printed and wrote
Dispatched == dispatched /\ pc = "updatePumps"

\* the state right after an updatePumps() pass
Scanned == pc = "serialEvent"

ErrorLines ==
  {ERR_UNKNOWN, ERR_START_FORMAT, ERR_PUMP_ID, ERR_RPM, ERR_DURATION,
   ERR_STOP, ERR_PUMP}

StatusLine(x, y, z, a) ==
  <<"{\"X\":", x, ",\"Y\":", y, ",\"Z\":", z, ",\"A\":", a, "}">>

StatusLines ==
  {StatusLine(x, y, z, a) : x \in {"0", "1"}, y \in {"0", "1"},
                            z \in {"0", "1"}, a \in {"0", "1"}}

IsResponse(line) == line = OK \/ line \in ErrorLines \/ line \in StatusLines

Responses == SelectSeq(serialOut, IsResponse)

Printed(line) == \E k \in 1 .. Len(serialOut) : serialOut[k] = line

RECURSIVE CountCommas(_)
CountCommas(s) ==
  IF s = <<>> THEN 0
  ELSE (IF Head(s) = "," THEN 1 ELSE 0) + CountCommas(Tail(s))

\* the comma-separated fields of a line
FieldCount(s) == CountCommas(s) + 1

\* the text of a line before its first comma
Keyword(s) ==
  IF \E k \in 1 .. Len(s) : s[k] = ","
  THEN SubSeq(s, 1, (CHOOSE k \in 1 .. Len(s) :
                        s[k] = "," /\ \A j \in 1 .. (k - 1) : s[j] # ",") - 1)
  ELSE s

\* the values the START lines of the properties range over
ClaimRpms == {-3001, -3000, -50, 0, 50, 3000, 3001}
ClaimDurations == {0, 1, 66}
ClaimFlags == {0, 1}

RpmInRange(r) == r # 0 /\ r >= -3000 /\ r <= 3000
DurationRule(d, c) == c # 0 \/ d > 0
Magnitude(r) == IF r < 0 THEN -r ELSE r

(***************************************************************************)
(* C1.  In every reachable state, for each channel, the enable output      *)
(* bound to the channel is asserted (LOW) exactly when the channel's       *)
(* running flag is true.  Refuted: the four channels share enable pin 8.   *)
(***************************************************************************)
C1_EnableIffRunning ==
  \A i \in PumpIdx : (pin[enablePin(i)] = "LOW") <=> pumps[i].isRunning

(***************************************************************************)
(* C2.  Every line the host terminates is given to processCommand exactly  *)
(* once, in order, with exactly its own characters: the String dispatched  *)
(* is the oldest line written and not yet dispatched.  Refuted: serialEvent*)
(* keeps appending the bytes that follow a terminator.                     *)
(***************************************************************************)
C2_LineDispatchedIntact == Dispatched => command = expected

(***************************************************************************)
(* C3.  Every line given to processCommand produces exactly one response   *)
(* line: OK, the STATUS map, or one of the ERROR lines ("Started pump" and *)
(* "Stopped pump" lines not counted).                                      *)
(***************************************************************************)
C3_OneResponse == Dispatched => Len(Responses) = 1

\* a restart: three lines printed, one of them the response
C3_Witness ==
  Dispatched /\ Len(serialOut) = 3 /\ serialOut[3] = OK /\ Len(Responses) = 1

(***************************************************************************)
(* C4.  After EMERGENCY is processed, whatever channels were running, no   *)
(* channel is running and the response is OK; a STATUS dispatched next     *)
(* reports 0 for all four channels.                                        *)
(***************************************************************************)
C4_EmergencyStopsAll ==
  /\ (Dispatched /\ trim(command) = kEMERGENCY)
       => /\ \A i \in PumpIdx : ~pumps[i].isRunning
          /\ Responses = <<OK>>
  /\ (Dispatched /\ trim(command) = kSTATUS /\ prevEmergency)
       => serialOut = <<StatusLine("0", "0", "0", "0")>>

\* EMERGENCY processed while two channels were running
C4_Witness ==
  /\ Dispatched /\ command = kEMERGENCY
  /\ serialOut = << <<"Stopped pump ", "X">>, <<"Stopped pump ", "Y">>, OK >>

(***************************************************************************)
(* C5.  A non-continuous channel started with duration d stays running     *)
(* until d*1000 ms have elapsed and is deactivated by the first scheduler  *)
(* pass at or after that: a pass stops a channel by its timer only when    *)
(* elapsed >= d*1000, and leaves no non-continuous channel running past    *)
(* it.  Refuted for durations whose product with 1000 overflows int.       *)
(***************************************************************************)
C5_AutoStopAtDuration ==
  Scanned =>
    \A i \in PumpIdx :
      /\ Printed(<<"Stopped pump ", name(i)>>)
           => millis - pumps[i].startTime >= pumps[i].duration * 1000
      /\ (pumps[i].isRunning /\ ~pumps[i].continuous)
           => millis - pumps[i].startTime < pumps[i].duration * 1000

(***************************************************************************)
(* C6.  An accepted START for a channel that is running first deactivates  *)
(* it (enable deasserted), then writes the direction output once, and      *)
(* asserts enable last; the channel ends running with interval, duration,  *)
(* continuous flag and timestamps taken from the new command.              *)
(***************************************************************************)
C6_RestartStopsThenConfigures ==
  [][(pc = "loop" /\ stringComplete) =>
     \A i \in PumpIdx :
       pumps[i].isRunning =>
       \A r \in ClaimRpms, d \in ClaimDurations, c \in ClaimFlags :
         ( /\ inputString = StartText(name(i), r, d, c)
           /\ RpmInRange(r) /\ DurationRule(d, c) )
         => /\ pinWrites' = << <<enablePin(i), "HIGH">>,
                               <<dirPin(i), IF r > 0 THEN "HIGH" ELSE "LOW">>,
                               <<enablePin(i), "LOW">> >>
            /\ pin'[dirPin(i)] = (IF r > 0 THEN "HIGH" ELSE "LOW")
            /\ pin'[enablePin(i)] = "LOW"
            /\ pumps'[i] = [isRunning |-> TRUE, rpm |-> F(Magnitude(r)),
                            duration |-> d, continuous |-> (c = 1),
                            startTime |-> millis,
                            intervalMicros |-> [nan |-> FALSE, num |-> 60000000,
                                                den |-> 3200 * Magnitude(r)],
                            lastStepTime |-> micros]
            /\ \A j \in PumpIdx \ {i} : pumps'[j] = pumps[j]
    ]_vars

\* a running channel X restarted in the other direction
C6_Witness ==
  /\ Dispatched /\ command = StartText("X", -50, 1, 0)
  /\ serialOut[1] = <<"Stopped pump ", "X">>
  /\ pin[dirPin(0)] = "LOW" /\ pumps[0].isRunning

(***************************************************************************)
(* C7.  Whenever a command is answered with an ERROR line, no channel's    *)
(* running flag, configuration field or timestamp changes and no output    *)
(* pin is written.                                                         *)
(***************************************************************************)
C7_ErrorChangesNothing ==
  [][( /\ pc = "loop" /\ stringComplete
       /\ \E k \in 1 .. Len(serialOut') : serialOut'[k] \in ErrorLines )
     => (pumps' = pumps /\ pin' = pin /\ pinWrites' = <<>>)
    ]_vars

\* a START with RPM 0 answered with the range error while X is running
C7_Witness ==
  /\ Dispatched /\ command = StartText("X", 0, 1, 0)
  /\ serialOut = <<ERR_RPM>> /\ pumps[0].isRunning

(***************************************************************************)
(* C8.  A START line with fewer or with more than 5 comma-separated fields *)
(* is answered "ERROR: Invalid START command format" and starts no         *)
(* channel.  Refuted: fields past the fifth are ignored.                   *)
(***************************************************************************)
C8_FieldCountEnforced ==
  (Dispatched /\ Keyword(trim(command)) = kSTART /\ FieldCount(trim(command)) # 5)
    => (serialOut = <<ERR_START_FORMAT>> /\ pinWrites = <<>>)

(***************************************************************************)
(* C9.  A 5-field START for a known channel is accepted exactly when       *)
(* 0 < |rpm| <= 3000 and the duration rule holds; an RPM that is not in    *)
(* that range is answered with the RPM range error; every running channel  *)
(* holds an RPM magnitude in (0, 3000].  Refuted: an RPM field reading     *)
(* "nan" passes both comparisons of the range check.                       *)
(***************************************************************************)
C9_RpmRangeDecides ==
  /\ \A i \in PumpIdx :
       pumps[i].isRunning
         => (~pumps[i].rpm.nan /\ pumps[i].rpm.val > 0 /\ pumps[i].rpm.val <= 3000)
  /\ Dispatched =>
       \A i \in PumpIdx, d \in ClaimDurations, c \in ClaimFlags :
         /\ \A r \in ClaimRpms :
              command = StartText(name(i), r, d, c)
                => /\ Printed(OK) <=> (RpmInRange(r) /\ DurationRule(d, c))
                   /\ ~RpmInRange(r) => serialOut = <<ERR_RPM>>
         /\ command = StartNanText(name(i), d, c) => serialOut = <<ERR_RPM>>

(***************************************************************************)
(* C10.  Any line that is not a START command, a STOP command, the literal *)
(* EMERGENCY or the literal STATUS is answered "ERROR: Unknown command"    *)
(* and changes no state.  Refuted: a keyword that merely begins with START *)
(* or STOP is handled as START or STOP.                                    *)
(***************************************************************************)
C10_OtherLinesUnknown ==
  ( /\ Dispatched
    /\ Keyword(trim(command)) \notin {kSTART, kSTOP}
    /\ trim(command) \notin {kEMERGENCY, kSTATUS} )
  => (serialOut = <<ERR_UNKNOWN>> /\ pinWrites = <<>>)

\* the text of a line after its first comma
IdText(s) ==
  IF \E k \in 1 .. Len(s) : s[k] = ","
  THEN SubSeq(s, (CHOOSE k \in 1 .. Len(s) :
                     s[k] = "," /\ \A j \in 1 .. (k - 1) : s[j] # ",") + 1, Len(s))
  ELSE <<>>

(***************************************************************************)
(* C11.  A STOP line is answered OK exactly when the text after its comma  *)
(* is the id of a channel (X, Y, Z or A); on acceptance that channel is    *)
(* not running afterwards and every other channel's fields are unchanged;  *)
(* otherwise no channel changes.  Refuted: only the first character after  *)
(* the comma is looked at, so STOP,XQ is accepted and stops X.             *)
(***************************************************************************)
C11_StopAcceptance ==
  [][(pc = "loop" /\ stringComplete /\ Keyword(trim(inputString)) = kSTOP) =>
       LET id == IdText(trim(inputString))
       IN  IF \E i \in PumpIdx : id = <<name(i)>>
           THEN /\ \E k \in 1 .. Len(serialOut') : serialOut'[k] = OK
                /\ \A i \in PumpIdx :
                     IF id = <<name(i)>> THEN ~pumps'[i].isRunning
                     ELSE pumps'[i] = pumps[i]
           ELSE /\ \A k \in 1 .. Len(serialOut') : serialOut'[k] # OK
                /\ pumps' = pumps
    ]_vars

\* the value STATUS reports for a running flag
Bit(b) == IF b THEN "1" ELSE "0"

(***************************************************************************)
(* C12.  STATUS prints one map with the four channels in the order X, Y,   *)
(* Z, A, each value 1 exactly when the channel's running flag is true when *)
(* the request is processed, and changes no channel field and no output.   *)
(***************************************************************************)
C12_StatusReportsFlags ==
  [][(pc = "loop" /\ stringComplete /\ trim(inputString) = kSTATUS) =>
       /\ serialOut' = << StatusLine(Bit(pumps[0].isRunning), Bit(pumps[1].isRunning),
                                     Bit(pumps[2].isRunning), Bit(pumps[3].isRunning)) >>
       /\ pumps' = pumps /\ pin' = pin /\ pinWrites' = <<>>
    ]_vars

\* STATUS answered while Y alone is running
C12_Witness ==
  /\ Dispatched /\ trim(command) = kSTATUS
  /\ pumps[1].isRunning /\ ~pumps[0].isRunning
  /\ serialOut = <<StatusLine("0", "1", "0", "0")>>

(***************************************************************************)
(* C13.  In every reachable state, every running channel that is not       *)
(* continuous has a duration greater than 0, whatever number the           *)
(* <continuous> field of the accepted START carried.  Refuted: the         *)
(* duration is required only when the field is 0, while the channel is     *)
(* continuous only when the field is 1.                                    *)
(***************************************************************************)
C13_TimedRunHasDuration ==
  \A i \in PumpIdx :
    (pumps[i].isRunning /\ ~pumps[i].continuous) => pumps[i].duration > 0

\* line s names channel i in the field after its first comma
Targets(s, i) == IdText(s) # <<>> /\ Head(IdText(s)) = name(i)

\* the line in inputString is a command that stops channel i: EMERGENCY,
\* a STOP for i, or a START for i (which stops before it restarts)
StopsChannel(s, i) ==
  \/ s = kEMERGENCY
  \/ Keyword(s) \in {kSTART, kSTOP} /\ Targets(s, i)

(***************************************************************************)
(* C14.  A channel running in continuous mode is never deactivated by a    *)
(* scheduler pass, whatever time has elapsed and whatever duration it      *)
(* stores; it is deactivated only by a loop() step that dispatches STOP    *)
(* for it, EMERGENCY, or a START for it.                                   *)
(***************************************************************************)
C14_ContinuousNeverTimedOut ==
  [][\A i \in PumpIdx :
       (pumps[i].isRunning /\ pumps[i].continuous) =>
         /\ pc = "updatePumps" => pumps'[i] = [pumps[i] EXCEPT !.lastStepTime = pumps'[i].lastStepTime]
         /\ ( \/ ~pumps'[i].isRunning
              \/ \E k \in 1 .. Len(serialOut') : serialOut'[k] = <<"Stopped pump ", name(i)>> )
              => (pc = "loop" /\ stringComplete /\ StopsChannel(trim(inputString), i))
    ]_vars

\* a pass has left a continuous channel running although the time elapsed
\* since its start is not below its stored duration
C14_Witness ==
  /\ Scanned /\ pumps[0].isRunning /\ pumps[0].continuous
  /\ millis > pumps[0].startTime
  /\ millis - pumps[0].startTime >= pumps[0].duration * MillisPerSecond

(***************************************************************************)
(* C15.  When channels run at the same time with different finite          *)
(* durations, all of them stop when the shortest timer expires: after a    *)
(* scheduler pass that stopped a channel by its timer, no channel with     *)
(* another finite duration is still running.  Refuted: each channel is     *)
(* stopped by its own timer only.                                          *)
(***************************************************************************)
C15_AllStopWithShortest ==
  Scanned =>
    \A i, j \in PumpIdx :
      ( /\ Printed(<<"Stopped pump ", name(i)>>)
        /\ ~pumps[j].continuous
        /\ pumps[j].duration # pumps[i].duration )
      => ~pumps[j].isRunning

\* the state right after getStatus() has handled an answer: result is the
\* answer
Polled == event = "getStatus"

(***************************************************************************)
(* C16.  When getStatus() handles an answer with success, then for each of *)
(* the frontend's pumps that has an entry in the reported status the       *)
(* frontend's running flag becomes (entry = 1) and the pump's display      *)
(* shows that flag; a pump without an entry keeps its flag and display.    *)
(***************************************************************************)
C16_PollReconciles ==
  [][(event' = "getStatus" /\ result'.success) =>
       \A pump \in PagePumps :
         IF pump \in DOMAIN result'.status
         THEN /\ page'.pumpStates[pump].running = (result'.status[pump] = 1)
              /\ page'.display[pump] =
                   (IF result'.status[pump] = 1 THEN "running" ELSE "stopped")
         ELSE /\ page'.pumpStates[pump] = page.pumpStates[pump]
              /\ page'.display[pump] = page.display[pump]
    ]_vars

\* an answer without an entry for Y, handled while Y was shown running: Y
\* stays running, X and Z follow the answer
C16_Witness ==
  /\ Polled /\ result.success /\ result.hasStatus
  /\ DOMAIN result.status = {"X", "Z", "A"}
  /\ result.status["X"] = 0 /\ result.status["Z"] = 1
  /\ page.pumpStates["Y"].running /\ page.display["Y"] = "running"
  /\ ~page.pumpStates["X"].running /\ page.pumpStates["Z"].running

\* the whole microseconds a channel waits between two pulses, when its
\* interval is a number
WaitMicros(p) ==
  (p.intervalMicros.num + p.intervalMicros.den - 1) \div p.intervalMicros.den

\* the product duration * 1000 of channel p fits the int of the target
ProductFits(p) == p.duration * MillisPerSecond < 2 ^ (IntBits - 1)

C18_ThresholdIsDurationMillis ==
  [][pc = "updatePumps" =>
       \A i \in PumpIdx :
         (pumps[i].isRunning /\ ~pumps[i].continuous) =>
           ( ~pumps'[i].isRunning
               <=> millis' - pumps[i].startTime >= pumps[i].duration * MillisPerSecond )
    ]_vars

\* the digitalWrite calls writes of a loop() step pulse channel i
Pulses(i, writes) == \E k \in 1 .. Len(writes) : writes[k] = <<stepPin(i), "HIGH">>

(***************************************************************************)
(* C19.  A step pulse is emitted for a channel only by a scheduler pass in *)
(* which the channel is running and, if it is not continuous, its duration *)
(* has not elapsed: never for a stopped channel, never by a command, and   *)
(* not by the pass that stops the channel.  Refuted for durations whose    *)
(* product with 1000 overflows int: the channel is still pulsed after its  *)
(* duration has elapsed.                                                   *)
(***************************************************************************)
C19_PulseOnlyWhileRunning ==
  [][\A i \in PumpIdx :
       (pc \in {"loop", "updatePumps"} /\ Pulses(i, pinWrites')) =>
         /\ pc = "updatePumps"
         /\ pumps[i].isRunning /\ pumps'[i].isRunning
         /\ \A k \in 1 .. Len(serialOut') : serialOut'[k] # <<"Stopped pump ", name(i)>>
         /\ pumps[i].continuous
              \/ millis' - pumps[i].startTime < pumps[i].duration * MillisPerSecond
    ]_vars

\* floor(d * stepsPerSecond(r)) for the duration and RPM channel p stores
PulsesOwed(p) == (p.duration * p.rpm.val * EFFECTIVE_STEPS_PER_REV) \div 60

(***************************************************************************)
(* C20.  Successive pulses of a channel are at least its step interval     *)
(* apart in the time the scheduler samples, one pulse per pass at most,    *)
(* and a run of duration d at rpm r that ends by its timer has emitted     *)
(* floor(d * stepsPerSecond(r)) pulses, give or take one.  Refuted: a      *)
(* pass that comes late emits one pulse and restarts the interval from its *)
(* own clock reading, so every late pass loses pulses for good.            *)
(***************************************************************************)
C20_PulseSpacingAndCount ==
  [][pc = "updatePumps" =>
       \A i \in PumpIdx :
         /\ Pulses(i, pinWrites') =>
              /\ pulsesIn(pinWrites', i) = 1
              /\ ~pumps[i].intervalMicros.nan
              /\ micros' - pumps[i].lastStepTime >= WaitMicros(pumps[i])
         /\ ( /\ pumps[i].isRunning /\ ~pumps'[i].isRunning
              /\ ~pumps[i].rpm.nan /\ ProductFits(pumps[i]) )
              => /\ pulseCount'[i] >= PulsesOwed(pumps[i]) - 1
                 /\ pulseCount'[i] <= PulsesOwed(pumps[i]) + 1
    ]_vars

\* the channels that are running
Running == {i \in PumpIdx : pumps[i].isRunning}

\* the lines among out that report a stop
StoppedLines(out) == SelectSeq(out, LAMBDA l : l[1] = "Stopped pump ")

(***************************************************************************)
(* C21.  Deactivating a channel that is already stopped does nothing: no   *)
(* pin is written, no "Stopped pump" line is printed, no field changes,    *)
(* and deactivating twice is the same as deactivating once.  So EMERGENCY  *)
(* prints a Stopped line and writes the enable pin once for each channel   *)
(* that was running and no more; a STOP for a stopped channel only answers *)
(* OK; a START for a stopped channel writes direction and enable only.     *)
(***************************************************************************)
C21_StopOfStoppedIsNoOp ==
  [][(pc = "loop" /\ stringComplete) =>
       /\ \A i \in PumpIdx :
            LET once == stopPump(Machine, i)
            IN  /\ stopPump(once, i) = once
                /\ ~pumps[i].isRunning => once = Machine
       /\ trim(inputString) = kEMERGENCY =>
            /\ Len(StoppedLines(serialOut')) = Cardinality(Running)
            /\ Len(pinWrites') = Cardinality(Running)
            /\ \A i \in PumpIdx \ Running :
                 /\ pumps'[i] = pumps[i]
                 /\ \A k \in 1 .. Len(serialOut') :
                      serialOut'[k] # <<"Stopped pump ", name(i)>>
       /\ \A i \in PumpIdx \ Running :
            /\ trim(inputString) = StopText(name(i)) =>
                 /\ serialOut' = <<OK>> /\ pinWrites' = <<>>
                 /\ pumps' = pumps /\ pin' = pin
            /\ trim(inputString) = StartText(name(i), 50, 1, 0) =>
                 /\ StoppedLines(serialOut') = <<>>
                 /\ pinWrites' = << <<dirPin(i), "HIGH">>, <<enablePin(i), "LOW">> >>
    ]_vars

\* EMERGENCY dispatched right after an EMERGENCY that had stopped X: every
\* channel is already stopped
C21_Witness ==
  /\ Dispatched /\ trim(command) = kEMERGENCY /\ prevEmergency
  /\ pumps[0].rpm = F(50) /\ Running = {}
  /\ serialOut = <<OK>> /\ pinWrites = <<>>


\* both RPMs of the pair were accepted and given an interval
BothComputed ==
  /\ Len(trial.intervalMicros) = 2
  /\ trial.intervalMicros[1].accepted /\ trial.intervalMicros[2].accepted

\* a single that is a whole number
IsWhole(x) == x.e >= 0 \/ x.m % (2 ^ (0 - x.e)) = 0

\* a single above zero
PositiveSingle(x) == ~x.neg /\ x.m > 0

\* C22 (as amended): for two accepted RPMs, each step interval computed by
\* startPump is strictly positive, two RPMs of the same magnitude get the
\* same interval whatever their signs, and the RPM of the larger magnitude
\* never gets the larger interval; it gets a strictly smaller one when
\* both RPMs are whole numbers.
C22_IntervalPositiveSignFreeNonIncreasing ==
  BothComputed =>
    LET a == absSingle(trial.rpm[1])
        b == absSingle(trial.rpm[2])
        ia == trial.intervalMicros[1].value
        ib == trial.intervalMicros[2].value
    IN  /\ PositiveSingle(ia) /\ PositiveSingle(ib)
        /\ a = b => ia = ib
        /\ lessSingle(a, b) => lessEqSingle(ib, ia)
        /\ lessSingle(a, b) /\ IsWhole(a) /\ IsWhole(b) => lessSingle(ib, ia)

\* C22 (as stated): the RPM of the larger magnitude always gets the
\* strictly smaller interval.
C22_IntervalStrictlyDecreasing ==
  BothComputed =>
    (lessSingle(absSingle(trial.rpm[1]), absSingle(trial.rpm[2]))
       => lessSingle(trial.intervalMicros[2].value, trial.intervalMicros[1].value))

\* an anticlockwise 50 RPM and a clockwise 3000 RPM, both given an interval,
\* the second shorter than the first
C22_Witness ==
  /\ BothComputed
  /\ trial.rpm = <<singleOf(0 - 50), singleOf(MaxRpm)>>
  /\ lessSingle(trial.intervalMicros[2].value, trial.intervalMicros[1].value)


\* the numbers of the runs of startSelectedPumps so far
Batches == 1 .. Len(batches)

\* the fetches under way of the startPump calls of run n
AwaitedBy(n) == {req \in requests : req.op = "start" /\ req.batch = n}

\* the calls of startPump by any run that sent a request
SentCalls ==
  {<<n, k>> \in Batches \X (1 .. Len(thisPumps)) :
     k <= Len(batches[n].calls) /\ batches[n].calls[k].sent}

\* run n has called startPump for the first pumps of its selection, in
\* order, one call each
CallsFollowSelection(n) ==
  /\ Len(batches[n].calls) <= Len(batches[n].selected)
  /\ \A k \in 1 .. Len(batches[n].calls) :
       batches[n].calls[k].pump = batches[n].selected[k]

\* run n awaits at most one fetch, that of its last call, and has ended
\* when it awaits none
OneAfterAnother(n) ==
  /\ Cardinality(AwaitedBy(n)) <= 1
  /\ batches[n].done <=> AwaitedBy(n) = {}
  /\ \A req \in AwaitedBy(n) :
       LET last == batches[n].calls[Len(batches[n].calls)]
       IN  last.sent /\ last.pump = req.pump

(***************************************************************************)
(* C23 (as amended).  A run of startSelectedPumps calls startPump once for *)
(* each selected pump, in order; a call sends one start request if the     *)
(* pump's RPM input is a number other than 0 and none otherwise; the run   *)
(* awaits the answer to a request before it makes the next call, so at     *)
(* most one of its requests is under way; it ends only when every selected *)
(* pump has had its call, whatever the outcomes of the requests; and with  *)
(* no pump selected no request is sent.                                    *)
(***************************************************************************)
C23_BatchStartsEachInTurn ==
  /\ \A n \in Batches :
       /\ CallsFollowSelection(n)
       /\ OneAfterAnother(n)
       /\ \A k \in 1 .. Len(batches[n].calls) :
            batches[n].calls[k].sent <=> batches[n].calls[k].rpm # 0
       /\ batches[n].done => Len(batches[n].calls) = Len(batches[n].selected)
       /\ batches[n].selected = <<>> => batches[n].done /\ AwaitedBy(n) = {}
  /\ nRequests = Cardinality(SentCalls)

\* C23 (as stated): a run that has ended has sent a start request for
\* every selected pump.
C23_OneRequestPerSelectedPump ==
  \A n \in Batches :
    batches[n].done =>
      /\ Len(batches[n].calls) = Len(batches[n].selected)
      /\ \A k \in 1 .. Len(batches[n].calls) : batches[n].calls[k].sent

\* a run over X, Y and Z has ended with three requests sent, the last one
\* failing with an exception, X not started and Y started
C23_Witness ==
  /\ Len(batches) >= 1
  /\ batches[1].done /\ batches[1].selected = <<"X", "Y", "Z">>
  /\ \A k \in 1 .. 3 : batches[1].calls[k].sent
  /\ answer.outcome = "exception" /\ answer.pump = "Z"
  /\ ~page.pumpStates["X"].running /\ page.pumpStates["Y"].running


\* the running flag of each pump on the page pg
Flags(pg) == [pump \in PagePumps |-> pg.pumpStates[pump].running]

\* the RPM inputs that hold 0 or no number
NoRpmTexts == {<<"0">>, <<"a", "b", "c">>}

(***************************************************************************)
(* C24.  A start, stop or emergency stop changes running flags only in the *)
(* step that handles its answer, and only if the answer reports success:   *)
(* then a start sets the flag of its pump, a stop clears the flag of its   *)
(* pump, an emergency stop clears every flag, and no other flag changes.   *)
(* An answer with success false and a failed request leave the page as it  *)
(* was.  The click itself changes nothing on the page, and a click on      *)
(* start sends a request exactly when the RPM input is a number other      *)
(* than 0.                                                                 *)
(***************************************************************************)
C24_FlagsChangeOnlyOnSuccess ==
  [][/\ answer'.op \in {"start", "stop", "emergency"} =>
          IF answer'.outcome = "success"
          THEN \A pump \in PagePumps :
                 Flags(page')[pump] =
                   IF answer'.op = "emergency" THEN FALSE
                   ELSE IF pump # answer'.pump THEN Flags(page)[pump]
                   ELSE answer'.op = "start"
          ELSE page' = page
     /\ event' \in {"startPump", "startPump refused", "stopPump", "emergencyStop"} =>
          page' = page
     /\ event' \in {"startPump", "startPump refused"} =>
          /\ startForm'.rpm \in NoRpmTexts <=> event' = "startPump refused"
          /\ event' = "startPump refused" <=> requests' = requests
          /\ event' = "startPump refused" <=> nRequests' = nRequests
    ]_vars

\* a stop of a pump shown running was answered with success false, and the
\* pump is still running
C24_Witness ==
  /\ answer.op = "stop" /\ answer.outcome = "failure"
  /\ page.pumpStates[answer.pump].running
  /\ page.display[answer.pump] = "running"


(***************************************************************************)
(* C25.  When getStatus() handles the answer to a status request, it       *)
(* leaves alone the running flag of every pump for which a start or stop   *)
(* was acknowledged as successful whose request was sent after that status *)
(* request.                                                                *)
(***************************************************************************)
C25_StalePollKeepsAcknowledged ==
  [][answer'.op = "status" =>
       \A pump \in PagePumps :
         answer'.seq < acknowledged[pump] =>
           Flags(page')[pump] = Flags(page)[pump]
    ]_vars

=============================================================================
